---- MODULE Spec2Model ----
(***************************************************************************)
(* Model of src/data/xpath_converter.py: xpath_to_offsets(html_string,     *)
(* xpath, substring=None).                                                 *)
(*                                                                         *)
(* Python strings are sequences of characters.  The parsed document is     *)
(* represented by what the function reads from it: the sequence of text    *)
(* fragments doc.itertext() yields (frags) and the result list of          *)
(* doc.xpath(xpath) (nodes).  A result is either the text node of the k-th *)
(* fragment (frag = k, stringified to that fragment's text) or some other  *)
(* result such as an element or an attribute value (frag = 0, stringified  *)
(* to an arbitrary string).  substring is an optional string: None or a    *)
(* given string, the empty string included.                                *)
(***************************************************************************)
EXTENDS Integers, Sequences, FiniteSets, TLC

\* ---- bounds --------------------------------------------------------------
MaxFrags == 2
MaxFragLen == 2
MaxMatches == 1
MaxSubLen == 1
MaxOtherLen == 0

Alphabet == {"a", "b"}

\* ---- Python strings ------------------------------------------------------
RECURSIVE StrUpTo(_)
StrUpTo(n) ==
    IF n = 0 THEN {<<>>}
    ELSE LET shorter == StrUpTo(n - 1)
         IN  shorter \cup {Append(s, c) : s \in shorter, c \in Alphabet}

RECURSIVE SeqUpTo(_, _)
SeqUpTo(S, n) ==
    IF n = 0 THEN {<<>>}
    ELSE LET shorter == SeqUpTo(S, n - 1)
         IN  shorter \cup {Append(q, x) : q \in shorter, x \in S}

\* s[a:b] for 0 <= a <= b <= len(s)
Slice(s, a, b) == SubSeq(s, a + 1, b)

\* the positions (0-based) at which sub occurs in s
Occurrences(s, sub) ==
    {k \in 0..(Len(s) - Len(sub)) : SubSeq(s, k + 1, k + Len(sub)) = sub}

FindNeverFailsMutant(s, sub) ==
    LET occ == Occurrences(s, sub)
    IN  IF occ = {} THEN 0
        ELSE CHOOSE k \in occ : \A m \in occ : k <= m

\* str.find: index of the first occurrence, -1 when there is none
Find(s, sub) ==
    LET occ == Occurrences(s, sub)
    IN  IF occ = {} THEN -1
        ELSE CHOOSE k \in occ : \A m \in occ : k <= m

\* ---- optional substring --------------------------------------------------
None == [some |-> FALSE, str |-> <<>>]
Some(s) == [some |-> TRUE, str |-> s]

TruthyIsNotNoneMutant(sub) == sub.some

\* `if substring:` -- None and the empty string are both falsy
Truthy(sub) == sub.some /\ Len(sub.str) > 0

\* ---- inputs --------------------------------------------------------------
\* itertext() of a parsed document yields non-empty text fragments
Fragments == StrUpTo(MaxFragLen) \ {<<>>}
Documents == SeqUpTo(Fragments, MaxFrags)

\* results of doc.xpath(): text nodes of the document, or other results
\* (attribute values, elements) with some string form of their own
Matches(fs) ==
    {[frag |-> k, str |-> fs[k]] : k \in 1..Len(fs)}
        \cup {[frag |-> 0, str |-> s] : s \in StrUpTo(MaxOtherLen)}
MatchLists(fs) == SeqUpTo(Matches(fs), MaxMatches)

Substrings == {None} \cup {Some(s) : s \in StrUpTo(MaxSubLen)}

\* str(nodes[0])
Str(node) == node.str

\* ---- the loop body's computations ---------------------------------------
SpanEndNoPosMutant(p, e) == Len(e)

SpanEndBackMutant(p, e) == p - Len(e)

\* end = pos + len(elem)
SpanEnd(p, e) == p + Len(e)

StoreKeepFirstMutant(offs, e, span) ==
    [k \in DOMAIN offs \cup {e} |-> IF k \in DOMAIN offs THEN offs[k] ELSE span]

\* offsets[elem] = (start, end)
Store(offs, e, span) ==
    [k \in DOMAIN offs \cup {e} |-> IF k = e THEN span ELSE offs[k]]

SubstringFirstMutant(offs, key, sub) ==
    IF Truthy(sub) /\ Find(key, sub.str) = -1 THEN "SubstringNotFound"
    ELSE IF key \in DOMAIN offs THEN "ok" ELSE "KeyError"

\* offsets[node_text]: KeyError when node_text is not a key
LookupOutcome(offs, key, sub) ==
    IF key \in DOMAIN offs THEN "ok" ELSE "KeyError"

\* ---- state ---------------------------------------------------------------
VARIABLES frags, nodes, substring,
          node_text, flat_text, offsets, pos, i, elem, start, end,
          global_start, global_end, pc, outcome, result

vars == <<frags, nodes, substring, node_text, flat_text, offsets, pos, i,
          elem, start, end, global_start, global_end, pc, outcome, result>>

inputs == <<frags, nodes, substring>>
loopvars == <<flat_text, offsets, pos, i, elem, start, end>>
globals == <<global_start, global_end>>

Init ==
    /\ frags \in Documents
    /\ nodes \in MatchLists(frags)
    /\ substring \in Substrings
    /\ node_text = <<>>
    /\ flat_text = <<>>
    /\ offsets = <<>>
    /\ pos = 0
    /\ i = 0
    /\ elem = <<>>
    /\ start = 0
    /\ end = 0
    /\ global_start = 0
    /\ global_end = 0
    /\ pc = "xpath"
    /\ outcome = "running"
    /\ result = <<>>

\* lines 6-7: the match list is empty
RaiseNoMatch ==
    /\ pc = "xpath"
    /\ nodes = <<>>
    /\ outcome' = "NoMatch"
    /\ pc' = "done"
    /\ UNCHANGED <<inputs, node_text, loopvars, globals, result>>

\* lines 8-12
TakeFirst ==
    /\ pc = "xpath"
    /\ nodes # <<>>
    /\ node_text' = Str(nodes[1])
    /\ flat_text' = <<>>
    /\ offsets' = <<>>
    /\ pos' = 0
    /\ pc' = "loop"
    /\ UNCHANGED <<inputs, i, elem, start, end, globals, outcome, result>>

\* lines 13-18: one iteration of the loop over doc.itertext()
LoopStep ==
    /\ pc = "loop"
    /\ i < Len(frags)
    /\ i' = i + 1
    /\ elem' = frags[i + 1]
    /\ start' = pos
    /\ flat_text' = flat_text \o elem'
    /\ end' = SpanEnd(pos, elem')
    /\ offsets' = Store(offsets, elem', <<start', end'>>)
    /\ pos' = end'
    /\ UNCHANGED <<inputs, node_text, globals, pc, outcome, result>>

\* line 20, node_text is a key
Lookup ==
    /\ pc = "loop"
    /\ i = Len(frags)
    /\ LookupOutcome(offsets, node_text, substring) = "ok"
    /\ global_start' = offsets[node_text][1]
    /\ global_end' = offsets[node_text][2]
    /\ pc' = "narrow"
    /\ UNCHANGED <<inputs, node_text, loopvars, outcome, result>>

\* line 20, node_text is not a key
RaiseLookup ==
    /\ pc = "loop"
    /\ i = Len(frags)
    /\ LookupOutcome(offsets, node_text, substring) # "ok"
    /\ outcome' = LookupOutcome(offsets, node_text, substring)
    /\ pc' = "done"
    /\ UNCHANGED <<inputs, node_text, loopvars, globals, result>>

\* lines 22-27 and 31: the substring is found
Narrow ==
    /\ pc = "narrow"
    /\ Truthy(substring)
    /\ Find(node_text, substring.str) # -1
    /\ LET start_offset == global_start + Find(node_text, substring.str)
           end_offset == start_offset + Len(substring.str)
       IN  result' = <<start_offset, end_offset>>
    /\ outcome' = "ok"
    /\ pc' = "done"
    /\ UNCHANGED <<inputs, node_text, loopvars, globals>>

\* lines 22-25: the substring is not found
RaiseSubstringNotFound ==
    /\ pc = "narrow"
    /\ Truthy(substring)
    /\ Find(node_text, substring.str) = -1
    /\ outcome' = "SubstringNotFound"
    /\ pc' = "done"
    /\ UNCHANGED <<inputs, node_text, loopvars, globals, result>>

\* lines 28-31: no (or empty) substring
ReturnFull ==
    /\ pc = "narrow"
    /\ ~Truthy(substring)
    /\ result' = <<global_start, global_end>>
    /\ outcome' = "ok"
    /\ pc' = "done"
    /\ UNCHANGED <<inputs, node_text, loopvars, globals>>

Next ==
    \/ RaiseNoMatch
    \/ TakeFirst
    \/ LoopStep
    \/ Lookup
    \/ RaiseLookup
    \/ Narrow
    \/ RaiseSubstringNotFound
    \/ ReturnFull

Spec == Init /\ [][Next]_vars

TypeOK ==
    /\ pc \in {"xpath", "loop", "narrow", "done"}
    /\ outcome \in {"running", "ok", "NoMatch", "KeyError", "SubstringNotFound"}
    /\ i \in 0..Len(frags)

\* ---- vocabulary of the properties ----------------------------------------
Done == pc = "done"
Ok == outcome = "ok"

\* total length of the first k fragments
RECURSIVE SumLen(_, _)
SumLen(fs, k) == IF k = 0 THEN 0 ELSE SumLen(fs, k - 1) + Len(fs[k])

\* concatenation of the first k fragments
RECURSIVE Concat(_, _)
Concat(fs, k) == IF k = 0 THEN <<>> ELSE Concat(fs, k - 1) \o fs[k]

Positions(fs, t) == {k \in 1..Len(fs) : fs[k] = t}
LastPos(fs, t) == CHOOSE k \in Positions(fs, t) : \A m \in Positions(fs, t) : m <= k
NoRepeatedFragment == \A a, b \in 1..Len(frags) : frags[a] = frags[b] => a = b

\* C1: on success in a document without repeated fragment text, the flattened
\* text sliced at [start, end) is the substring when one was provided and
\* node_text otherwise.
C1_SliceIsRequestedText ==
    (Done /\ Ok /\ NoRepeatedFragment) =>
        Slice(flat_text, result[1], result[2]) =
            (IF substring.some THEN substring.str ELSE node_text)

\* C2: whenever a substring is provided (the empty string included) and
\* occurs in node_text, the call returns start = global_start + first index
\* and end = start + length(substring).
C2_ProvidedSubstringNarrows ==
    (Done /\ Ok /\ substring.some) =>
        /\ result[1] = global_start + Find(node_text, substring.str)
        /\ result[2] = result[1] + Len(substring.str)
        /\ result[2] - result[1] = Len(substring.str)

\* C3: on success with the substring omitted the returned pair is the indexed
\* span of node_text and its length is length(node_text), repeated fragment
\* text or not.
C3_OmittedReturnsIndexedSpan ==
    (Done /\ Ok /\ ~substring.some) =>
        /\ result = offsets[node_text]
        /\ result = <<global_start, global_end>>
        /\ result[2] - result[1] = Len(node_text)

C3_Witness ==
    /\ Done /\ Ok /\ ~substring.some
    /\ ~NoRepeatedFragment
    /\ Cardinality(Positions(frags, node_text)) > 1
    /\ result[1] > 0

\* C4: a finished call has exactly one of the four outcomes, decided by the
\* stated conditions, and a pair is returned only on success.
C4_FourOutcomes ==
    Done =>
        /\ outcome \in {"ok", "NoMatch", "KeyError", "SubstringNotFound"}
        /\ (outcome = "NoMatch") <=> (nodes = <<>>)
        /\ (outcome = "KeyError") =>
               (nodes # <<>> /\ Str(nodes[1]) \notin DOMAIN offsets)
        /\ (outcome = "SubstringNotFound") =>
               (substring.some /\ Occurrences(Str(nodes[1]), substring.str) = {})
        /\ (outcome = "ok") <=>
               /\ nodes # <<>>
               /\ Str(nodes[1]) \in DOMAIN offsets
               /\ ~(substring.some /\ Occurrences(Str(nodes[1]), substring.str) = {})
        /\ (outcome = "ok") <=> (result # <<>>)
        /\ (outcome = "ok") => (Len(result) = 2)

C4_Witness ==
    /\ Done /\ outcome = "SubstringNotFound"
    /\ Len(frags) = 2
    /\ result = <<>>

\* C5: every returned pair satisfies 0 <= start <= end.
C5_SpanOrdered ==
    (Done /\ Ok) => (0 <= result[1] /\ result[1] <= result[2])

C5_Witness ==
    /\ Done /\ Ok /\ Truthy(substring)
    /\ 0 < result[1] /\ result[1] < result[2]
    /\ result[1] > global_start

\* C6: the index holds, for every fragment text, the span of its LAST
\* occurrence; a call matching an earlier occurrence of a repeated text
\* returns the last occurrence's span.
C6_LastOccurrenceWins ==
    /\ \A t \in DOMAIN offsets :
           LET k == LastPos(SubSeq(frags, 1, i), t)
           IN  offsets[t] = <<SumLen(frags, k - 1), SumLen(frags, k)>>
    /\ (Done /\ Ok /\ ~Truthy(substring)) =>
           LET k == LastPos(frags, node_text)
           IN  result = <<SumLen(frags, k - 1), SumLen(frags, k)>>

C6_Witness ==
    /\ Done /\ Ok /\ ~substring.some
    /\ nodes[1].frag > 0
    /\ nodes[1].frag < LastPos(frags, node_text)
    /\ result # <<SumLen(frags, nodes[1].frag - 1), SumLen(frags, nodes[1].frag)>>

\* C7: when node_text is the text of exactly one fragment, the k-th, a call
\* without substring returns (sum of the lengths before it, that plus its
\* own length).
C7_UniqueFragmentSpan ==
    \A k \in 1..Len(frags) :
        (Done /\ Ok /\ ~substring.some /\ Positions(frags, node_text) = {k}) =>
            /\ result[1] = SumLen(frags, k - 1)
            /\ result[2] = result[1] + Len(frags[k])

C7_Witness ==
    /\ Done /\ Ok /\ ~substring.some
    /\ Positions(frags, node_text) = {2}
    /\ Len(frags) = 2
    /\ result = <<Len(frags[1]), Len(frags[1]) + Len(frags[2])>>

\* C8: during the traversal pos = len(flat_text), each fragment's span starts
\* where the previous one ended (the first at 0) and ends at pos, and every
\* index entry (text -> (s, e)) satisfies flat_text[s:e] = text within
\* 0 <= s <= e <= len(flat_text).
C8_TraversalState ==
    /\ pos = Len(flat_text)
    /\ flat_text = Concat(frags, i)
    /\ i > 0 =>
           /\ start = SumLen(frags, i - 1)
           /\ end = pos
           /\ end - start = Len(frags[i])
           /\ offsets[frags[i]] = <<start, end>>
    /\ \A t \in DOMAIN offsets :
           /\ 0 <= offsets[t][1]
           /\ offsets[t][1] <= offsets[t][2]
           /\ offsets[t][2] <= Len(flat_text)
           /\ Slice(flat_text, offsets[t][1], offsets[t][2]) = t

C8_Tiling ==
    [][i' = i + 1 => (start' = (IF i = 0 THEN 0 ELSE end) /\ end' = pos')]_vars

C8_IndexTraversal == []C8_TraversalState /\ C8_Tiling

C8_Witness ==
    /\ pc = "loop" /\ i = 2
    /\ Cardinality(DOMAIN offsets) = 2
    /\ start > 0

\* C9: the failure checks fire in the order no-match, lookup, substring: a
\* missing index key gives the lookup failure even when the substring is
\* absent from node_text, and an empty match list gives the no-match error
\* before any index is built, whatever the substring.
C9_FailureOrder ==
    Done =>
        /\ nodes = <<>> => (outcome = "NoMatch" /\ i = 0 /\ offsets = <<>>)
        /\ (nodes # <<>> /\ node_text \notin DOMAIN offsets) =>
               outcome = "KeyError"
        /\ outcome = "SubstringNotFound" =>
               (nodes # <<>> /\ node_text \in DOMAIN offsets)

C9_Witness ==
    /\ Done /\ outcome = "KeyError"
    /\ Len(frags) > 0
    /\ Truthy(substring)
    /\ Find(node_text, substring.str) = -1

\* C10: a call with the empty string as substring gives what the call with
\* the substring omitted gives: the full span of node_text on success (never
\* a zero-length span unless node_text is empty), and never the
\* substring-not-found error.
C10_EmptyLikeOmitted ==
    (Done /\ substring = Some(<<>>)) =>
        /\ outcome # "SubstringNotFound"
        /\ Ok => /\ result = <<global_start, global_end>>
                 /\ result = offsets[node_text]
                 /\ (result[1] = result[2] => node_text = <<>>)

C10_Witness ==
    /\ Done /\ Ok /\ substring = Some(<<>>)
    /\ result[2] - result[1] = 2
    /\ result[1] > 0
====
